---- MODULE Spec2Model ----
(***************************************************************************)
(* Model of the patrol-route optimiser: runLocalOptimization (the greedy    *)
(* walk over the grid with the shared coverage counter and the statistics) *)
(* and its caller runOptimization with the Visualizer calls it makes.      *)
(*                                                                         *)
(* Numbers.  riskMap entries are two-decimal values (Math.round(risk*100)  *)
(* /100); the model holds them in hundredths (0.5 is 50).  The inputs use  *)
(* only 0, 0.5 and 1.0, which are exact in binary floating point, so that  *)
(* risk * 2 + animal is computed exactly and the correctly rounded         *)
(* division by (visited + 1) orders two scores exactly as the rationals    *)
(* do; scores are therefore compared by cross-multiplication.              *)
(***************************************************************************)
EXTENDS Integers, Sequences, FiniteSets, TLC

\* ------------------------------------------------------------------ bounds
MaxGridSize == 3
MaxSteps == 3

\* rangerCount values tried (non-positive ones included)
RangerCounts == -1 .. 2

\* risk values, in hundredths: the background levels and a hot spot
BackgroundRisks == {0, 50}
HotRisks == {100}

VARIABLES
    params,     \* the Parameters object handed to runLocalOptimization
    pc,         \* position of the one thread of control
    caller,     \* "none" | "direct" | "ui": who awaits runLocalOptimization
    routes,     \* const routes = []
    coverage,   \* const coverage = Array(gridSize) x Array(gridSize)
    r,          \* ranger loop counter
    path,       \* const path = [] of the ranger being generated
    start,      \* <<>> while startRow/startCol are undefined, else <<startRow, startCol>>
    step,       \* walk loop counter
    result,     \* value the promise of runLocalOptimization resolved with
    error,      \* "" or the name of the exception thrown
    loading,    \* Visualizer.setLoading state of the buttons
    animated,   \* routes handed to Visualizer.animateRoutes
    statsShown, \* stats handed to the statistics display
    alerts      \* messages shown by alert(), in order

vars == <<params, pc, caller, routes, coverage, r, path, start, step,
          result, error, loading, animated, statsShown, alerts>>

\* ------------------------------------------------------------- the inputs
Cells(n) == (0 .. n - 1) \X (0 .. n - 1)

\* A square grid as nested arrays indexed [row][col] from 0, filled from a
\* function f on the cells.
Grid(n, f) == [row \in 0 .. n - 1 |-> [col \in 0 .. n - 1 |-> f[<<row, col>>]]]

\* Maps as generateRandomMap lays them out: an impassable cell carries risk 0
\* and no animal; a passable cell carries a risk and an animal flag.
MakeMap(n, blocked, risk, animals) ==
    [gridSize |-> n,
     riskMap |-> Grid(n, [c \in Cells(n) |-> IF c \in blocked THEN 0 ELSE risk[c]]),
     animalMap |-> Grid(n, [c \in Cells(n) |-> c \notin blocked /\ c \in animals]),
     terrainMap |-> Grid(n, [c \in Cells(n) |-> IF c \in blocked THEN 0 ELSE 1])]

\* The risk bg everywhere, but risk hot on the cells of spots.
Uniform(n, bg, spots, hot) == [c \in Cells(n) |-> IF c \in spots THEN hot ELSE bg]

\* The maps of side n tried: every cell impassable; or a uniform background
\* risk on which at most one cell is singled out as impassable, as a hot
\* spot, or as holding an animal.
Maps(n) ==
    {MakeMap(n, Cells(n), Uniform(n, 0, {}, 0), {})}
    \cup {MakeMap(n, {}, Uniform(n, bg, {}, 0), {}) : bg \in BackgroundRisks}
    \cup {MakeMap(n, {c}, Uniform(n, bg, {}, 0), {}) :
            bg \in BackgroundRisks, c \in Cells(n)}
    \cup UNION {{MakeMap(n, {}, Uniform(n, bg, {c}, hot), {}) :
                    bg \in BackgroundRisks, c \in Cells(n)} : hot \in HotRisks}
    \cup {MakeMap(n, {}, Uniform(n, bg, {}, 0), {c}) :
            bg \in BackgroundRisks, c \in Cells(n)}

Inputs ==
    {[gridSize |-> m.gridSize, rangerCount |-> rc, maxSteps |-> ms,
      riskMap |-> m.riskMap, animalMap |-> m.animalMap, terrainMap |-> m.terrainMap] :
        m \in UNION {Maps(n) : n \in -1 .. MaxGridSize},
        rc \in RangerCounts, ms \in -1 .. MaxSteps}

\* ------------------------------------------------------------ JS numbers
\* A statistics value: NaN, or the rational num/den in lowest terms
\* (num >= 0, den > 0).
NaN == [nan |-> TRUE, num |-> 0, den |-> 1]

RECURSIVE GCD(_, _)
GCD(a, b) == IF b = 0 THEN a ELSE GCD(b, a % b)

Num(n, d) == [nan |-> FALSE, num |-> n \div GCD(n, d), den |-> d \div GCD(n, d)]

\* x / y for numbers with x >= 0, y >= 0; 0/0 and anything with NaN is NaN.
\* (A positive x over a zero y would be Infinity; the statistics never
\* divide a non-zero sum by zero, since the sums are zero when the divisor is.)
Divide(x, y) ==
    IF x.nan \/ y.nan \/ y.num = 0 THEN NaN
    ELSE Num(x.num * y.den, x.den * y.num)

Minus(x, y) ==
    IF x.nan \/ y.nan THEN NaN
    ELSE Num(x.num * y.den - y.num * x.den, x.den * y.den)

Times(x, k) == IF x.nan THEN NaN ELSE Num(x.num * k, x.den)

\* Number.prototype.toFixed(0) of a non-negative number: "NaN" for NaN, else
\* the nearest integer, halves rounded up.
toFixed0(x) ==
    IF x.nan THEN "NaN" ELSE ToString((2 * x.num + x.den) \div (2 * x.den))

\* ------------------------------------------------------------ getNeighbors
directions == <<<<-1, 0>>, <<1, 0>>, <<0, -1>>, <<0, 1>>>>

\* The in-bounds passable cells next to (row, col), in the order of directions.
InGrid(nr, nc) ==
    /\ nr >= 0 /\ nr < params.gridSize
    /\ nc >= 0 /\ nc < params.gridSize

\* (variant: the terrain test left out)
Passable_AnyTerrain(nr, nc) == TRUE

Passable(nr, nc) == params.terrainMap[nr][nc] = 1

\* (variant: the row offset used for the column too)
Moved_RowOffsetTwice(row, col, d) == <<row + d[1], col + d[1]>>

Moved(row, col, d) == <<row + d[1], col + d[2]>>

getNeighbors(row, col) ==
    LET cand == [i \in 1 .. Len(directions) |-> Moved(row, col, directions[i])]
        valid(c) == InGrid(c[1], c[2]) /\ Passable(c[1], c[2])
    IN  SelectSeq(cand, valid)

\* ------------------------------------------------------------ the scoring
\* score = (risk * 2 + animal) / (visited + 1), kept as a fraction in hundredths.
NegInfinity == [negInf |-> TRUE, num |-> 0, den |-> 1]

\* (variant: the risk term left out of the score)
Score_NoRisk(cov, nr, nc) ==
    [negInf |-> FALSE,
     num |-> (IF params.animalMap[nr][nc] THEN 1 ELSE 0) * 100,
     den |-> cov[nr][nc] + 1]

Score(cov, nr, nc) ==
    LET risk == params.riskMap[nr][nc]
        animal == IF params.animalMap[nr][nc] THEN 1 ELSE 0
        visited == cov[nr][nc]
    IN  [negInf |-> FALSE, num |-> risk * 2 + animal * 100, den |-> visited + 1]

\* (variant: score >= bestScore, the last of equal scores wins)
Better_OrEqual(score, bestScore) ==
    bestScore.negInf \/ score.num * bestScore.den >= bestScore.num * score.den

\* score > bestScore
Better(score, bestScore) ==
    bestScore.negInf \/ score.num * bestScore.den > bestScore.num * score.den

\* The loop over the neighbours from index i on, carrying bestNeighbor/bestScore.
RECURSIVE ScanNeighbors(_, _, _, _, _)
ScanNeighbors(cov, neighbors, i, bestNeighbor, bestScore) ==
    IF i > Len(neighbors) THEN bestNeighbor
    ELSE LET score == Score(cov, neighbors[i][1], neighbors[i][2])
         IN  IF Better(score, bestScore)
             THEN ScanNeighbors(cov, neighbors, i + 1, neighbors[i], score)
             ELSE ScanNeighbors(cov, neighbors, i + 1, bestNeighbor, bestScore)

BestNeighbor(cov, neighbors) ==
    ScanNeighbors(cov, neighbors, 1, neighbors[1], NegInfinity)

\* (variant: the increment left out)
Visit_NoCount(cov, row, col) == cov

\* coverage[row][col]++
Visit(cov, row, col) == [cov EXCEPT ![row][col] = @ + 1]

\* ------------------------------------------------------------ statistics
HighRisk == 70

Sum(f, S) ==
    LET RECURSIVE Acc(_)
        Acc(T) == IF T = {} THEN 0
                  ELSE LET c == CHOOSE x \in T : TRUE IN f[c] + Acc(T \ {c})
    IN  Acc(S)

\* The statistics record; sums of risk are in hundredths, the mitigated
\* (risk * 0.2) sum in five-hundredths.
Stats(cov) ==
    LET n == params.gridSize
        land == {c \in Cells(n) : params.terrainMap[c[1]][c[2]] = 1}
        riskOf == [c \in land |-> params.riskMap[c[1]][c[2]]]
        totalRisk == Sum(riskOf, land)
        mitigated == [c \in land |-> IF cov[c[1]][c[2]] > 0 THEN riskOf[c]
                                      ELSE 5 * riskOf[c]]
        coveredRisk == Sum(mitigated, land)
        high == {c \in land : riskOf[c] >= HighRisk}
        highRiskCells == Cardinality(high)
        coveredHighRisk == Cardinality({c \in high : cov[c[1]][c[2]] > 0})
        cells == Num(n * n, 1)
        beforeRisk == Divide(Num(totalRisk, 100), cells)
        afterRisk == Divide(Num(coveredRisk, 500), cells)
        reduction == toFixed0(Times(Divide(Minus(beforeRisk, afterRisk), beforeRisk), 100))
        highCoverage == IF highRiskCells > 0
                        THEN toFixed0(Times(Num(coveredHighRisk, highRiskCells), 100))
                        ELSE "100"
    IN  [beforeRisk |-> beforeRisk,
         afterRisk |-> afterRisk,
         riskReduction |-> reduction \o "%",
         highRiskCoverage |-> highCoverage \o "%"]

\* ------------------------------------------------- runLocalOptimization
\* Outcomes of Math.floor(Math.random() * n).
RandomIndex(n) == IF n > 0 THEN 0 .. n - 1 ELSE n .. 0

currentRow == path[Len(path)][1]
currentCol == path[Len(path)][2]

\* The promise rejects with the exception thrown.
Throw(message) ==
    /\ pc' = "threw"
    /\ error' = message
    /\ UNCHANGED <<routes, coverage, r, path, start, step, result>>

\* The loop tests r < params.rangerCount and step < params.maxSteps.
MoreRangers(i) == i < params.rangerCount

\* (variant: step <= params.maxSteps)
WalkContinues_OneMore(s) == s <= params.maxSteps

WalkContinues(s) == s < params.maxSteps

\* End of one ranger's iteration: routes.push, r++, and the ranger loop's test.
FinishRoute(newPath, newCov) ==
    /\ routes' = Append(routes, [rangerId |-> r, path |-> newPath])
    /\ coverage' = newCov
    /\ r' = r + 1
    /\ path' = <<>>
    /\ start' = <<>>
    /\ step' = 0
    /\ pc' = IF MoreRangers(r + 1) THEN "sample" ELSE "stats"

\* After a push at walk counter value newStep: the walk loop's test.
Advance(newPath, newCov, newStart, newStep) ==
    IF WalkContinues(newStep)
    THEN /\ path' = newPath
         /\ coverage' = newCov
         /\ start' = newStart
         /\ step' = newStep
         /\ pc' = "walk"
         /\ UNCHANGED <<routes, r>>
    ELSE FinishRoute(newPath, newCov)

\* The simulated network delay elapses; routes and coverage are created and
\* the ranger loop is entered.
Timeout ==
    /\ pc = "called"
    /\ IF params.gridSize < 0
       THEN Throw("Invalid array length")
       ELSE /\ routes' = <<>>
            /\ coverage' = Grid(params.gridSize, [c \in Cells(params.gridSize) |-> 0])
            /\ r' = 0
            /\ pc' = IF MoreRangers(0) THEN "sample" ELSE "stats"
            /\ UNCHANGED <<path, start, step, result, error>>
    /\ UNCHANGED <<params, caller, loading, animated, statsShown, alerts>>

\* One pass of the do-while that samples a start cell, and on a passable
\* cell the push of step 0.
SampleStart ==
    /\ pc = "sample"
    /\ \E startRow \in RandomIndex(params.gridSize),
          startCol \in RandomIndex(params.gridSize) :
         IF startRow \notin DOMAIN params.terrainMap
         THEN Throw("Cannot read properties of undefined")
         ELSE IF params.terrainMap[startRow][startCol] = 0
         THEN /\ start' = <<startRow, startCol>>
              /\ UNCHANGED <<pc, routes, coverage, r, path, step, result, error>>
         ELSE /\ Advance(<<<<startRow, startCol>>>>,
                         Visit(coverage, startRow, startCol),
                         <<startRow, startCol>>, 1)
              /\ UNCHANGED <<result, error>>
    /\ UNCHANGED <<params, caller, loading, animated, statsShown, alerts>>

\* One iteration of the greedy walk that finds a neighbour to move to.
WalkStep ==
    /\ pc = "walk"
    /\ LET neighbors == getNeighbors(currentRow, currentCol)
       IN  /\ Len(neighbors) # 0
           /\ LET bestNeighbor == BestNeighbor(coverage, neighbors)
              IN  Advance(Append(path, bestNeighbor),
                          Visit(coverage, bestNeighbor[1], bestNeighbor[2]),
                          start, step + 1)
    /\ UNCHANGED <<params, caller, result, error, loading, animated, statsShown, alerts>>

\* An iteration of the walk that finds no neighbour: break.
WalkBreak ==
    /\ pc = "walk"
    /\ Len(getNeighbors(currentRow, currentCol)) = 0
    /\ FinishRoute(path, coverage)
    /\ UNCHANGED <<params, caller, result, error, loading, animated, statsShown, alerts>>

\* The statistics and the return.
ComputeStats ==
    /\ pc = "stats"
    /\ result' = <<[routes |-> routes, coverage |-> coverage, stats |-> Stats(coverage)]>>
    /\ pc' = "resolved"
    /\ UNCHANGED <<params, caller, routes, coverage, r, path, start, step, error,
                   loading, animated, statsShown, alerts>>

\* ------------------------------------------------------ runOptimization
\* The methods the Visualizer object defines.
VisualizerMethods ==
    {"renderMap", "renderRoutes", "updateStatsOptimized", "updateStatsRandom",
     "setLoading", "animateRoutes"}

\* The click handler up to its await: the guard on an empty map, then
\* setLoading(true) and the call of runLocalOptimization.
RunOptimization ==
    /\ pc = "idle"
    /\ IF DOMAIN params.riskMap = {}
       THEN /\ alerts' = Append(alerts, "Please generate a map first!")
            /\ pc' = "done"
            /\ UNCHANGED <<caller, loading>>
       ELSE /\ loading' = TRUE
            /\ caller' = "ui"
            /\ pc' = "called"
            /\ UNCHANGED alerts
    /\ UNCHANGED <<params, routes, coverage, r, path, start, step, result, error,
                   animated, statsShown>>

\* await Visualizer.animateRoutes(result.routes, 50)
AnimateRoutes ==
    /\ pc = "resolved"
    /\ caller = "ui"
    /\ animated' = <<result[1].routes>>
    /\ pc' = "updateStats"
    /\ UNCHANGED <<params, caller, routes, coverage, r, path, start, step, result,
                   error, loading, statsShown, alerts>>

\* Visualizer.updateStats(result.stats): a call of a property that is not a
\* function throws a TypeError.
UpdateStats ==
    /\ pc = "updateStats"
    /\ IF "updateStats" \in VisualizerMethods
       THEN /\ statsShown' = <<result[1].stats>>
            /\ pc' = "finally"
            /\ UNCHANGED <<routes, coverage, r, path, start, step, result, error>>
       ELSE /\ Throw("Visualizer.updateStats is not a function")
            /\ UNCHANGED statsShown
    /\ UNCHANGED <<params, caller, loading, animated, alerts>>

\* catch (error): the alert.
Catch ==
    /\ pc = "threw"
    /\ caller = "ui"
    /\ alerts' = Append(alerts, "Optimization failed: " \o error)
    /\ pc' = "finally"
    /\ UNCHANGED <<params, caller, routes, coverage, r, path, start, step, result,
                   error, loading, animated, statsShown>>

\* finally: Visualizer.setLoading(false)
Finally ==
    /\ pc = "finally"
    /\ loading' = FALSE
    /\ pc' = "done"
    /\ UNCHANGED <<params, caller, routes, coverage, r, path, start, step, result,
                   error, animated, statsShown, alerts>>

\* ------------------------------------------------------ specifications
Idle ==
    /\ routes = <<>> /\ coverage = <<>> /\ r = 0 /\ path = <<>> /\ start = <<>>
    /\ step = 0 /\ result = <<>> /\ error = ""
    /\ loading = FALSE /\ animated = <<>> /\ statsShown = <<>> /\ alerts = <<>>

\* runLocalOptimization(params) has been called and awaits its timer.
Init ==
    /\ params \in Inputs
    /\ pc = "called"
    /\ caller = "direct"
    /\ Idle

Next == Timeout \/ SampleStart \/ WalkStep \/ WalkBreak \/ ComputeStats

Spec == Init /\ [][Next]_vars

\* The page with a map generated and the two input fields filled in, before
\* the click on the optimise button.
InitUI ==
    /\ params \in Inputs
    /\ pc = "idle"
    /\ caller = "none"
    /\ Idle

NextUI ==
    \/ RunOptimization
    \/ Timeout \/ SampleStart \/ WalkStep \/ WalkBreak \/ ComputeStats
    \/ AnimateRoutes \/ UpdateStats \/ Catch \/ Finally

SpecUI == InitUI /\ [][NextUI]_vars

\* ================================================================ claims
\* The paths built so far: those of the finished routes, then the one of the
\* ranger under way.
PathsBuilt ==
    [i \in 1 .. Len(routes) |-> routes[i].path]
        \o (IF path = <<>> THEN <<>> ELSE <<path>>)

Returned == IF result = <<>> THEN <<>>
            ELSE [i \in 1 .. Len(result[1].routes) |-> result[1].routes[i].path]

OnPassableCell(cell) ==
    /\ cell[1] \in 0 .. params.gridSize - 1
    /\ cell[2] \in 0 .. params.gridSize - 1
    /\ params.terrainMap[cell[1]][cell[2]] = 1

\* C1: every cell of every route, returned or under construction, lies inside
\* the grid and on passable terrain, after every step of the generation.
C1_RoutesStayOnPassableCells ==
    \A paths \in {PathsBuilt, Returned} :
        \A i \in DOMAIN paths : \A j \in DOMAIN paths[i] : OnPassableCell(paths[i][j])

\* Two rangers have walked a map that has an impassable cell, one of them
\* right next to that cell.
C1_Witness ==
    /\ result # <<>>
    /\ Len(Returned) = 2
    /\ \E i \in DOMAIN Returned : \E j \in DOMAIN Returned[i] :
         /\ Len(Returned[i]) >= 3
         /\ Returned[i][j][1] + 1 < params.gridSize
         /\ params.terrainMap[Returned[i][j][1] + 1][Returned[i][j][2]] = 0

\* Number of (route, step) pairs of paths that land on cell c.
Landings(paths, c) ==
    Cardinality({p \in UNION {{<<i, j>> : j \in DOMAIN paths[i]} : i \in DOMAIN paths} :
                    paths[p[1]][p[2]] = c})

\* C2: from the creation of the coverage grid on, coverage[r][c] is the number
\* of (ranger, step) pairs of the paths built so far that land on (r,c), and
\* the returned coverage counts the returned routes the same way.
C2_CoverageCountsLandings ==
    /\ pc \in {"sample", "walk", "stats", "resolved"} =>
         \A c \in Cells(params.gridSize) :
             coverage[c[1]][c[2]] = Landings(PathsBuilt, c)
    /\ result # <<>> =>
         \A c \in Cells(params.gridSize) :
             result[1].coverage[c[1]][c[2]] = Landings(Returned, c)

\* Two routes were returned and some cell was landed on more than once.
C2_Witness ==
    /\ result # <<>>
    /\ Len(Returned) = 2
    /\ \E c \in Cells(params.gridSize) : result[1].coverage[c[1]][c[2]] >= 2
    /\ \E c \in Cells(params.gridSize) : result[1].coverage[c[1]][c[2]] = 1

\* C3: with positive rangerCount and maxSteps the result holds rangerCount
\* routes, numbered 0 .. rangerCount-1 in order, each of 1 .. maxSteps cells.
C3_RouteCountAndLength ==
    (result # <<>> /\ params.rangerCount > 0 /\ params.maxSteps > 0) =>
        /\ Len(result[1].routes) = params.rangerCount
        /\ \A i \in 1 .. Len(result[1].routes) :
             /\ result[1].routes[i].rangerId = i - 1
             /\ Len(result[1].routes[i].path) >= 1
             /\ Len(result[1].routes[i].path) <= params.maxSteps

\* Two routes of full length were returned for maxSteps of 3 or more.
C3_Witness ==
    /\ result # <<>>
    /\ params.rangerCount = 2
    /\ params.maxSteps >= 3
    /\ Len(result[1].routes) = 2
    /\ Len(result[1].routes[1].path) = params.maxSteps
    /\ Len(result[1].routes[2].path) = params.maxSteps

\* C4: in every path each cell after the first is one orthogonal unit step
\* away from the cell before it.
C4_OrthogonalUnitSteps ==
    \A i \in DOMAIN PathsBuilt : \A j \in 2 .. Len(PathsBuilt[i]) :
        <<PathsBuilt[i][j][1] - PathsBuilt[i][j - 1][1],
          PathsBuilt[i][j][2] - PathsBuilt[i][j - 1][2]>>
            \in {<<-1, 0>>, <<1, 0>>, <<0, -1>>, <<0, 1>>}

\* A route that has moved along a row and along a column.
C4_Witness ==
    \E i \in DOMAIN PathsBuilt :
        /\ Len(PathsBuilt[i]) >= 3
        /\ PathsBuilt[i][1][1] # PathsBuilt[i][2][1]
        /\ PathsBuilt[i][2][2] # PathsBuilt[i][3][2]

AllImpassable ==
    /\ params.gridSize >= 1
    /\ \A c \in Cells(params.gridSize) : params.terrainMap[c[1]][c[2]] = 0

\* C5: on a grid whose cells are all impassable, with rangerCount >= 1, the
\* lack of a start cell is detected before start selection: no cell is ever
\* sampled.
C5_NoPassableCellsDetectedUpfront ==
    (AllImpassable /\ params.rangerCount >= 1) => start = <<>>

\* C6: a result whose beforeRisk is zero reports riskReduction "0%".
C6_ZeroBaselineReportsZeroPercent ==
    (/\ result # <<>>
     /\ ~result[1].stats.beforeRisk.nan
     /\ result[1].stats.beforeRisk.num = 0)
        => result[1].stats.riskReduction = "0%"

\* C7: with a non-positive gridSize, rangerCount or maxSteps nothing is
\* generated: no start cell is sampled, no coverage counted, no result returned.
C7_InvalidConfigurationRejected ==
    (params.gridSize <= 0 \/ params.rangerCount <= 0 \/ params.maxSteps <= 0) =>
        /\ start = <<>>
        /\ result = <<>>
        /\ \A c \in Cells(params.gridSize) :
             c[1] \in DOMAIN coverage => coverage[c[1]][c[2]] = 0

ScenarioC ==
    /\ params.gridSize = 3
    /\ params.rangerCount = 1
    /\ params.maxSteps = 3
    /\ \A c \in Cells(3) :
         /\ params.terrainMap[c[1]][c[2]] = 1
         /\ params.animalMap[c[1]][c[2]] = FALSE
         /\ params.riskMap[c[1]][c[2]] = IF c = <<1, 1>> THEN 100 ELSE 0

\* C8: in scenario C a route that does not start at the centre holds the
\* centre (1,1) at step index 1 or 2.
C8_ScenarioCReachesCentre ==
    (ScenarioC /\ result # <<>> /\ Returned[1][1] # <<1, 1>>) =>
        /\ Len(Returned[1]) >= 2
        /\ \/ Returned[1][2] = <<1, 1>>
           \/ Len(Returned[1]) >= 3 /\ Returned[1][3] = <<1, 1>>

\* Scenario C from a corner: the centre is reached at step index 2.
C8_Witness ==
    /\ ScenarioC
    /\ result # <<>>
    /\ Returned[1][1] = <<2, 2>>
    /\ Returned[1][3] = <<1, 1>>

\* The neighbour of cell `from` in direction k of up, down, left, right.
C9_Toward(from, k) ==
    CASE k = 1 -> <<from[1] - 1, from[2]>>
      [] k = 2 -> <<from[1] + 1, from[2]>>
      [] k = 3 -> <<from[1], from[2] - 1>>
      [] k = 4 -> <<from[1], from[2] + 1>>

\* a scores at least as much as b (strictly more, when strict), both scored
\* by (risk*2 + animal) / (coverage + 1) on the coverage grid cov.
C9_Outscores(cov, a, b, strict) ==
    LET value(c) == params.riskMap[c[1]][c[2]] * 2
                    + (IF params.animalMap[c[1]][c[2]] THEN 100 ELSE 0)
        weight(c) == cov[c[1]][c[2]] + 1
        lhs == value(a) * weight(b)
        rhs == value(b) * weight(a)
    IN  IF strict THEN lhs > rhs ELSE lhs >= rhs

\* Direction k from `from` leads to the best neighbour, first among equals.
C9_IsChoice(cov, from, k) ==
    /\ OnPassableCell(C9_Toward(from, k))
    /\ \A j \in 1 .. 4 :
         OnPassableCell(C9_Toward(from, j)) =>
             C9_Outscores(cov, C9_Toward(from, k), C9_Toward(from, j), j < k)

\* C9: a walk step taken where some neighbour is in bounds and passable moves
\* to the neighbour of maximal score on the coverage grid as it stands before
\* the step, the first in the order up, down, left, right among equal scores.
C9_GreedyFirstWins ==
    [][(/\ pc = "walk"
        /\ \E k \in 1 .. 4 : OnPassableCell(C9_Toward(path[Len(path)], k)))
       => LET new == IF pc' = "walk" THEN path' ELSE routes'[Len(routes')].path
          IN  /\ Len(new) = Len(path) + 1
              /\ \E k \in 1 .. 4 :
                   /\ new[Len(new)] = C9_Toward(path[Len(path)], k)
                   /\ C9_IsChoice(coverage, path[Len(path)], k)]_vars

\* The second ranger has moved to a neighbour that is not the first passable
\* one in direction order: the scores, not the order, decided the move.
C9_Witness ==
    /\ pc = "walk"
    /\ r = 1
    /\ Len(path) = 2
    /\ \E k \in 2 .. 4 : \E j \in 1 .. k - 1 :
         /\ path[2] = C9_Toward(path[1], k)
         /\ OnPassableCell(C9_Toward(path[1], j))

\* C10: once runLocalOptimization has resolved for the click handler, no
\* 'Optimization failed' alert is raised, and the handler ends with the
\* routes animated, result.stats on display and the loading state off.
C10_ResultIsAnimatedAndShown ==
    (caller = "ui" /\ result # <<>>) =>
        /\ alerts = <<>>
        /\ pc = "done" =>
             /\ animated = <<result[1].routes>>
             /\ statsShown = <<result[1].stats>>
             /\ loading = FALSE

====
